---- MODULE Spec2Model ----
(***************************************************************************)
(* Lease lifecycle and occupancy management of the property back office:   *)
(* the Unit, Bedroom, Lease, User (tenant), Invoice and Transaction tables *)
(* and the request handlers that write them.                               *)
(*   admin/lease.controller.js   createLease, activateLease, deleteLease   *)
(*   admin/tenant.controller.js  updateTenant (move), deleteTenant         *)
(*   invoice controller          updateInvoice, deleteInvoice             *)
(* A handler that runs inside prisma.$transaction is modelled as a pure    *)
(* operator from the database before the call to a result                  *)
(* [threw, reason, k, db]; Transaction commits db or rolls back.           *)
(* Two requests served at once are followed from their first read (begin)  *)
(* to the rest of the handler (finish), with the other's commit between.   *)
(***************************************************************************)
EXTENDS Integers, FiniteSets, Sequences, TLC

\* ---------------------------------------------------------------- bounds
NumTenants == 2
MaxLeaseId == 3
MaxInvoiceId == 3
MaxTxns == 1
MaxMonth == 1
MaxOps == 4
MaxRent == 1
MaxInFlight == 2

\* ---------------------------------------------------------------- world
NULL == 0
Tenants == 1..NumTenants
Months == 1..MaxMonth
\* Inventory created through createUnit: every unit has at least one bedroom.
Units == {1, 2}
Bedrooms == {1, 2, 3}
BedroomUnit == (1 :> 1) @@ (2 :> 1) @@ (3 :> 2)
Properties == {1}
Deposits == {0, 1}
\* monthlyRent as parseFloat(...) || 0 leaves it: 0 when the body has none.
Rents == 0..MaxRent

BedroomsOf(u) == {b \in Bedrooms : BedroomUnit[b] = u}

VARIABLES
    unit,       \* Unit rows: unit[u] = [status, rentalMode]
    bedroom,    \* Bedroom rows: bedroom[b] = status
    lease,      \* Lease rows: set of [id, unitId, bedroomId, tenantId, status, startDate,
                \* endDate, monthlyRent]
    user,       \* User rows with role TENANT: user[t] = [unitId, bedroomId, buildingId]
    invoice,    \* Invoice rows: set of [id, invoiceNo, tenantId, unitId, month, leaseId,
                \* rent, amount, balanceDue, status]
    txn,        \* Transaction ledger: sequence of [amount, balance]
    nextLeaseId,    \* autoincrement of Lease.id
    nextInvoiceId,  \* autoincrement of Invoice.id
    lastOp,     \* the request just served and its response
    ops,        \* number of requests received so far
    inflight    \* requests that have made their first read and not yet answered:
                \* set of [op, id, u, b, t, start, dep, pre], pre the rows read

tables == <<unit, bedroom, lease, user, invoice, txn, nextLeaseId, nextInvoiceId>>
vars == <<unit, bedroom, lease, user, invoice, txn, nextLeaseId, nextInvoiceId, lastOp, ops,
          inflight>>

\* The database as one value, handed to the transaction bodies.
DB ==
    [unit |-> unit, bedroom |-> bedroom, lease |-> lease, user |-> user,
     invoice |-> invoice, txn |-> txn,
     nextLeaseId |-> nextLeaseId, nextInvoiceId |-> nextInvoiceId]

\* ---------------------------------------------------------------- helpers
Min(S) == CHOOSE x \in S : \A y \in S : x <= y

\* A findFirst that never finds a row.
FindFirstNone(rows) == NULL

\* prisma findFirst without orderBy: the matching row of lowest id, or NULL.
FindFirstId(rows) == IF rows = {} THEN NULL ELSE Min({r.id : r \in rows})

RowById(rows, id) == CHOOSE r \in rows : r.id = id

\* What the caller is sent: res.status(code).json({ message }). reason stands
\* for the message text, k for the number the text carries (0 when none).
Response(op, code, reason, k) == [op |-> op, code |-> code, reason |-> reason, k |-> k]

\* One more request is received.
Received == ops < MaxOps /\ ops' = ops + 1

\* One more request is served from its first read to its response with no
\* other request in between.
Served == Received /\ UNCHANGED inflight

Ok(d) == [threw |-> FALSE, reason |-> "ok", k |-> 0, db |-> d]
Throw(d, reason, k) == [threw |-> TRUE, reason |-> reason, k |-> k, db |-> d]

\* prisma.$transaction(async tx => ...): with the rollback left out, the writes
\* made before the throw stay.
TransactionNoRollback(before, result) == result.db

\* prisma.$transaction(async tx => ...): commit the body's writes, or roll back
\* to the state before the call when the body throws.
Transaction(before, result) == IF result.threw THEN before ELSE result.db

\* tx.bedroom.updateMany({ where: { unitId }, data: { status } })
SetBedroomsOf(bed, u, status) ==
    [b \in DOMAIN bed |-> IF BedroomUnit[b] = u THEN status ELSE bed[b]]

\* The invoice row of tx.invoice.create: rent, amount and balanceDue are the
\* lease's rent, status is 'sent'.
InvoiceRow(d, t, u, month, leaseId, rentAmt) ==
    [id |-> d.nextInvoiceId, invoiceNo |-> Cardinality(d.invoice) + 1, tenantId |-> t,
     unitId |-> u, month |-> month, leaseId |-> leaseId, rent |-> rentAmt,
     amount |-> rentAmt, balanceDue |-> rentAmt, status |-> "sent"]

\* Invoice step without the findFirst check: always inserts.
EnsureInvoiceAlways(d, t, u, month, leaseId, rentAmt) ==
    [d EXCEPT !.invoice = @ \cup {InvoiceRow(d, t, u, month, leaseId, rentAmt)},
              !.nextInvoiceId = @ + 1]

\* "Auto-create Invoice": insert the invoice of (tenantId, unitId, month) unless
\* one exists; invoiceNo is INV-LEASE-(count + 1), kept here as the number.
EnsureInvoice(d, t, u, month, leaseId, rentAmt) ==
    LET existing == {i \in d.invoice : i.tenantId = t /\ i.unitId = u /\ i.month = month}
    IN IF existing # {} THEN d
       ELSE [d EXCEPT !.invoice = @ \cup {InvoiceRow(d, t, u, month, leaseId, rentAmt)},
                      !.nextInvoiceId = @ + 1]

\* "Record Security Deposit as a Liability Transaction"
RecordDeposit(d, dep) ==
    IF dep > 0
    THEN LET prev == IF Len(d.txn) = 0 THEN 0 ELSE d.txn[Len(d.txn)].balance
         IN [d EXCEPT !.txn = Append(@, [amount |-> dep, balance |-> prev + dep])]
    ELSE d

\* Recompute after a bedroom was marked Occupied: Fully Booked when every
\* bedroom of the unit is Occupied, else Occupied.
UnitStatusAfterApply(bed, u) ==
    IF \A b \in BedroomsOf(u) : bed[b] = "Occupied" THEN "Fully Booked" ELSE "Occupied"

\* ---------------------------------------------------------------- createLease
\* Occupancy validation of createLease: the reason of the first failing check,
\* "ok" when the request passes. k is the number of occupied bedrooms.
CreateLeaseValidation(d, u, b, t) ==
    LET unitLeases == {l \in d.lease : l.unitId = u /\ l.status \in {"Active", "DRAFT"}}
        occupied == {x \in BedroomsOf(u) : d.bedroom[x] = "Occupied"}
        mode == d.unit[u].rentalMode
    IN IF b = NULL
       THEN IF occupied # {} THEN "bedrooms_occupied"
            ELSE IF \E l \in unitLeases : l.status = "Active" THEN "unit_has_active_lease"
            ELSE IF \E l \in unitLeases : l.status = "DRAFT" /\ l.tenantId # t
                 THEN "pending_lease_other_tenant"
            ELSE "ok"
       ELSE IF \E l \in unitLeases : l.status = "Active" /\ mode = "FULL_UNIT"
                 THEN "active_full_unit_lease"
            ELSE IF \E l \in unitLeases : l.status = "DRAFT" /\ mode = "FULL_UNIT" /\ l.tenantId # t
                 THEN "reserved_full_unit_other_tenant"
            ELSE IF b \notin BedroomsOf(u) THEN "bedroom_not_found"
            ELSE IF d.bedroom[b] # "Vacant" THEN "bedroom_not_available"
            ELSE "ok"

\* The writes of createLease after validation passed.
CreateLeaseApply(d, u, b, t, start, end, dep, rent) ==
    LET draftId == FindFirstId({l \in d.lease :
                        l.unitId = u /\ l.tenantId = t /\ l.status = "DRAFT"})
        leases ==
            IF draftId # NULL
            THEN {IF l.id = draftId
                  THEN [l EXCEPT !.status = "Active", !.startDate = start, !.endDate = end,
                                 !.monthlyRent = rent]
                  ELSE l : l \in d.lease}
            ELSE d.lease \cup {[id |-> d.nextLeaseId, unitId |-> u, bedroomId |-> NULL,
                                tenantId |-> t, status |-> "Active",
                                startDate |-> start, endDate |-> end,
                                monthlyRent |-> rent]}
        d1 == [d EXCEPT !.lease = leases,
                        !.nextLeaseId = IF draftId # NULL THEN @ ELSE @ + 1]
        d2 == IF b = NULL
              THEN [d1 EXCEPT
                      !.unit[u] = [status |-> "Fully Booked", rentalMode |-> "FULL_UNIT"],
                      !.bedroom = SetBedroomsOf(@, u, "Occupied"),
                      !.user[t].bedroomId = NULL]
              ELSE LET bed == [d1.bedroom EXCEPT ![b] = "Occupied"]
                   IN [d1 EXCEPT
                         !.bedroom = bed,
                         !.unit[u] = [status |-> UnitStatusAfterApply(bed, u),
                                      rentalMode |-> "BEDROOM_WISE"],
                         !.user[t].bedroomId = b]
        leaseId == IF draftId # NULL THEN draftId ELSE d.nextLeaseId
        d3 == EnsureInvoice(d2, t, u, start, leaseId, rent)
    IN RecordDeposit(d3, dep)

\* The body of createLease's transaction.
CreateLeaseTx(d, u, b, t, start, end, dep, rent) ==
    LET reason == CreateLeaseValidation(d, u, b, t)
        occupied == {x \in BedroomsOf(u) : d.bedroom[x] = "Occupied"}
    IN IF reason # "ok"
       THEN Throw(d, reason, IF reason = "bedrooms_occupied" THEN Cardinality(occupied) ELSE 0)
       ELSE Ok(CreateLeaseApply(d, u, b, t, start, end, dep, rent))

Commit(d) ==
    /\ unit' = d.unit
    /\ bedroom' = d.bedroom
    /\ lease' = d.lease
    /\ user' = d.user
    /\ invoice' = d.invoice
    /\ txn' = d.txn
    /\ nextLeaseId' = d.nextLeaseId
    /\ nextInvoiceId' = d.nextInvoiceId

\* POST /api/admin/leases with body { unitId, bedroomId, tenantId, startDate,
\* endDate, securityDeposit, monthlyRent }
createLeaseRentReq(u, b, t, start, end, dep, rent) ==
    /\ Served
    /\ LET r == CreateLeaseTx(DB, u, b, t, start, end, dep, rent)
       IN /\ Commit(Transaction(DB, r))
          /\ lastOp' = Response("createLease", IF r.threw THEN 400 ELSE 201, r.reason, r.k)

\* The same with a body that holds no monthlyRent.
createLeaseReq(u, b, t, start, end, dep) == createLeaseRentReq(u, b, t, start, end, dep, 0)

createLease ==
    \E u \in Units, b \in Bedrooms \cup {NULL}, t \in DOMAIN user,
       start \in Months, dep \in Deposits :
        /\ nextLeaseId <= MaxLeaseId
        /\ nextInvoiceId <= MaxInvoiceId
        /\ Len(txn) + dep <= MaxTxns
        /\ createLeaseReq(u, b, t, start, MaxMonth, dep)

\* createLease with a monthlyRent in the body.
createLeaseRent ==
    \E u \in Units, b \in Bedrooms \cup {NULL}, t \in DOMAIN user,
       start \in Months, dep \in Deposits, rent \in Rents \ {0} :
        /\ nextLeaseId <= MaxLeaseId
        /\ nextInvoiceId <= MaxInvoiceId
        /\ Len(txn) + dep <= MaxTxns
        /\ createLeaseRentReq(u, b, t, start, MaxMonth, dep, rent)

\* ---------------------------------------------------------------- activateLease

\* Validation of activateLease, on the lease, unit and tenant read before the
\* transaction (pre) : scope comes from the tenant's cached bedroomId.
ActivateLeaseValidation(pre, l) ==
    LET bId == pre.user[l.tenantId].bedroomId
        occupied == {x \in BedroomsOf(l.unitId) : pre.bedroom[x] = "Occupied"}
    IN IF bId = NULL
       THEN IF occupied # {} THEN "bedrooms_occupied" ELSE "ok"
       ELSE IF pre.unit[l.unitId].status = "Fully Booked"
               /\ pre.unit[l.unitId].rentalMode = "FULL_UNIT"
            THEN "unit_fully_occupied_full_unit"
            ELSE "ok"

\* The body of activateLease's transaction. The lease row is written first,
\* validation follows, then the occupancy writes and the invoice.
ActivateLeaseTx(d, pre, id, now) ==
    LET l == RowById(pre.lease, id)
        tId == l.tenantId
        uId == l.unitId
        bId == pre.user[tId].bedroomId
        d1 == [d EXCEPT !.lease = {IF x.id = id
                                   THEN [x EXCEPT !.status = "Active", !.startDate = now]
                                   ELSE x : x \in @}]
        reason == ActivateLeaseValidation(pre, l)
        occupied == {x \in BedroomsOf(uId) : pre.bedroom[x] = "Occupied"}
        d2 == IF bId = NULL
              THEN [d1 EXCEPT
                      !.unit[uId] = [status |-> "Fully Booked", rentalMode |-> "FULL_UNIT"],
                      !.bedroom = SetBedroomsOf(@, uId, "Occupied")]
              ELSE LET bed == [d1.bedroom EXCEPT ![bId] = "Occupied"]
                   IN [d1 EXCEPT
                         !.bedroom = bed,
                         !.unit[uId] = [status |-> UnitStatusAfterApply(bed, uId),
                                        rentalMode |-> "BEDROOM_WISE"]]
    IN IF reason # "ok"
       THEN Throw(d1, reason, Cardinality(occupied))
       ELSE Ok(EnsureInvoice(d2, tId, uId, now, id, l.monthlyRent))

\* POST /api/admin/leases/:id/activate, served in month now
activateLeaseReq(id, now) ==
    /\ Served
    /\ IF \A l \in lease : l.id # id
       THEN /\ UNCHANGED tables
            /\ lastOp' = Response("activateLease", 404, "not_found", 0)
       ELSE LET r == ActivateLeaseTx(DB, DB, id, now)
            IN /\ Commit(Transaction(DB, r))
               \* the catch block answers every throw with the same text
               /\ lastOp' = IF r.threw
                            THEN Response("activateLease", 500, "error_activating_lease", 0)
                            ELSE Response("activateLease", 200, "ok", 0)

activateLease ==
    \E id \in 1..MaxLeaseId, now \in Months :
        /\ nextInvoiceId <= MaxInvoiceId
        /\ activateLeaseReq(id, now)

\* ---------------------------------------------------------------- deleteLease
\* Unit status after a bedroom unwind: Vacant when every bedroom is Vacant,
\* Occupied when some bedroom is Occupied, else as it was.
UnitStatusAfterUnwind(bed, u, old) ==
    IF \A b \in BedroomsOf(u) : bed[b] = "Vacant" THEN "Vacant"
    ELSE IF \E b \in BedroomsOf(u) : bed[b] = "Occupied" THEN "Occupied"
    ELSE old

\* The transaction of deleteLease on a lease read as Active: unwind the scope
\* given by the tenant's cached bedroomId, clear the tenant, delete the row.
DeleteActiveLeaseTx(d, l) ==
    LET tenantBedroomId == d.user[l.tenantId].bedroomId
        d1 == IF tenantBedroomId = NULL
              THEN [d EXCEPT !.bedroom = SetBedroomsOf(@, l.unitId, "Vacant"),
                             !.unit[l.unitId].status = "Vacant"]
              ELSE LET bed == [d.bedroom EXCEPT ![tenantBedroomId] = "Vacant"]
                   IN [d EXCEPT !.bedroom = bed,
                                !.unit[l.unitId].status =
                                    UnitStatusAfterUnwind(bed, l.unitId, @)]
    IN Ok([d1 EXCEPT
             !.user[l.tenantId] = [unitId |-> NULL, bedroomId |-> NULL, buildingId |-> NULL],
             !.lease = {x \in @ : x.id # l.id}])

\* The deletion without the update that clears the tenant's assignment.
DeleteOtherLeaseKeepTenant(d, l) == Ok([d EXCEPT !.lease = {x \in @ : x.id # l.id}])

\* The transaction of deleteLease on a lease of any other status.
DeleteOtherLeaseTx(d, l) ==
    Ok([d EXCEPT
          !.user[l.tenantId] = [unitId |-> NULL, bedroomId |-> NULL, buildingId |-> NULL],
          !.lease = {x \in @ : x.id # l.id}])

\* DELETE /api/admin/leases/:id
deleteLeaseReq(id) ==
    /\ Served
    /\ IF \A l \in lease : l.id # id
       THEN /\ UNCHANGED tables
            /\ lastOp' = Response("deleteLease", 404, "not_found", 0)
       ELSE LET l == RowById(lease, id)
                r == IF l.status = "Active"
                     THEN DeleteActiveLeaseTx(DB, l)
                     ELSE DeleteOtherLeaseTx(DB, l)
            IN /\ Commit(Transaction(DB, r))
               /\ lastOp' = Response("deleteLease", 200,
                                     IF l.status = "Active" THEN "statuses_reset"
                                     ELSE "deleted_permanently", 0)

deleteLease == \E id \in 1..MaxLeaseId : deleteLeaseReq(id)

\* ---------------------------------------------------------------- updateTenant (move)
\* The statuses of a current lease without DRAFT.
LiveStatusesNoDraft == {"ACTIVE", "Active"}

\* The statuses findFirst accepts for the tenant's current lease.
LiveStatuses == {"ACTIVE", "Active", "DRAFT"}

\* The statements of updateTenant that follow its transaction, each committed
\* on its own. now is the month of new Date(). failAt names the statement that
\* throws: "create" the lease.create, "none" when none does.
MoveLease(d, t, unitId, bedroomId, now, failAt) ==
    LET newUnitId == IF bedroomId # NULL THEN BedroomUnit[bedroomId] ELSE unitId
        currentId == FindFirstId({l \in d.lease :
                          l.tenantId = t /\ l.status \in LiveStatuses})
        fresh == [id |-> d.nextLeaseId, unitId |-> newUnitId, bedroomId |-> bedroomId,
                  tenantId |-> t, status |-> "ACTIVE",
                  startDate |-> NULL, endDate |-> NULL, monthlyRent |-> 0]
    IN IF newUnitId = NULL THEN Ok(d)
       ELSE IF currentId # NULL
       THEN LET cur == RowById(d.lease, currentId)
            IN IF cur.unitId = newUnitId THEN Ok(d)
               ELSE IF cur.status \in {"ACTIVE", "Active"}
               THEN LET moved == {IF x.id = currentId
                                  THEN [x EXCEPT !.status = "MOVED", !.endDate = now]
                                  ELSE x : x \in d.lease}
                    IN IF failAt = "create"
                       THEN Throw([d EXCEPT !.lease = moved], "error", 0)
                       ELSE Ok([d EXCEPT !.lease = moved \cup {fresh},
                                         !.nextLeaseId = @ + 1])
               ELSE Ok([d EXCEPT !.lease = {IF x.id = currentId
                                            THEN [x EXCEPT !.unitId = newUnitId,
                                                           !.bedroomId = bedroomId]
                                            ELSE x : x \in @}])
       ELSE IF failAt = "create" THEN Throw(d, "error", 0)
            ELSE Ok([d EXCEPT !.lease = @ \cup {fresh}, !.nextLeaseId = @ + 1])

\* The transaction of updateTenant: rewrite the tenant's cached assignment.
UpdateTenantTx(d, t, unitId, bedroomId, propertyId) ==
    Ok([d EXCEPT !.user[t] = [unitId |-> unitId, bedroomId |-> bedroomId,
                              buildingId |-> propertyId]])

\* PUT /api/admin/tenants/:id with body { unitId, bedroomId, propertyId },
\* served in month now: the transaction, then the lease statements.
updateTenantReq(t, unitId, bedroomId, propertyId, now, failAt) ==
    /\ Served
    /\ LET d1 == Transaction(DB, UpdateTenantTx(DB, t, unitId, bedroomId, propertyId))
           r == MoveLease(d1, t, unitId, bedroomId, now, failAt)
       IN /\ Commit(r.db)
          /\ lastOp' = Response("updateTenant", IF r.threw THEN 500 ELSE 200, r.reason, 0)

updateTenant ==
    \E t \in DOMAIN user, unitId \in Units \cup {NULL}, bedroomId \in Bedrooms \cup {NULL},
       propertyId \in Properties \cup {NULL}, now \in Months,
       failAt \in {"none", "create"} :
        /\ nextLeaseId <= MaxLeaseId
        \* the form sends a bedroom of the chosen unit and the unit's property
        /\ bedroomId # NULL => unitId = BedroomUnit[bedroomId]
        /\ (propertyId = NULL) = (unitId = NULL)
        /\ updateTenantReq(t, unitId, bedroomId, propertyId, now, failAt)

\* ---------------------------------------------------------------- deleteTenant
\* The transaction of deleteTenant.
DeleteTenantTx(d, t) ==
    LET anyId == FindFirstId({l \in d.lease :
                      l.tenantId = t /\ l.status \in {"Active", "DRAFT"}})
        d1 == IF anyId = NULL THEN d
              ELSE LET u == RowById(d.lease, anyId).unitId
                   IN [d EXCEPT !.bedroom = SetBedroomsOf(@, u, "Vacant"),
                                !.unit[u].status = "Vacant"]
    IN Ok([d1 EXCEPT
             !.lease = {l \in @ : l.tenantId # t},
             !.invoice = {i \in @ : i.tenantId # t},
             !.user = [x \in DOMAIN @ \ {t} |-> @[x]]])

\* DELETE /api/admin/tenants/:id
deleteTenant ==
    /\ Served
    /\ \E t \in DOMAIN user :
        /\ Commit(Transaction(DB, DeleteTenantTx(DB, t)))
        /\ lastOp' = Response("deleteTenant", 200, "ok", 0)

\* ---------------------------------------------------------------- deleteInvoice
\* DELETE /api/admin/invoices/:id
deleteInvoice ==
    /\ Served
    /\ \E id \in 1..MaxInvoiceId :
        /\ IF \E i \in invoice : i.id = id
           THEN /\ invoice' = {i \in invoice : i.id # id}
                /\ lastOp' = Response("deleteInvoice", 200, "ok", 0)
           ELSE /\ UNCHANGED invoice
                /\ lastOp' = Response("deleteInvoice", 500, "error", 0)
        /\ UNCHANGED <<unit, bedroom, lease, user, txn, nextLeaseId, nextInvoiceId>>

\* ---------------------------------------------------------------- updateLease
\* The back-fill without the filter on the invoice's lease.
UpdateLeaseTxAllLeases(d, id, rentAmt) ==
    Ok([d EXCEPT
          !.lease = {IF l.id = id THEN [l EXCEPT !.monthlyRent = rentAmt] ELSE l : l \in @},
          !.invoice = {IF i.status # "paid" /\ i.amount = 0
                       THEN [i EXCEPT !.rent = rentAmt, !.amount = rentAmt,
                                      !.balanceDue = rentAmt]
                       ELSE i : i \in @}])

\* The transaction of updateLease: set the lease's rent and back-fill the
\* invoices of the lease that are not paid and have amount 0.
UpdateLeaseTx(d, id, rentAmt) ==
    Ok([d EXCEPT
          !.lease = {IF l.id = id THEN [l EXCEPT !.monthlyRent = rentAmt] ELSE l : l \in @},
          !.invoice = {IF i.leaseId = id /\ i.status # "paid" /\ i.amount = 0
                       THEN [i EXCEPT !.rent = rentAmt, !.amount = rentAmt,
                                      !.balanceDue = rentAmt]
                       ELSE i : i \in @}])

\* PUT /api/admin/leases/:id with body { monthlyRent }; a negative rent is
\* refused, tx.lease.update throws when the lease does not exist.
updateLeaseReq(id, monthlyRent) ==
    /\ Served
    /\ IF monthlyRent < 0
       THEN /\ UNCHANGED tables
            /\ lastOp' = Response("updateLease", 400, "invalid_rent", 0)
       ELSE IF \A l \in lease : l.id # id
       THEN /\ UNCHANGED tables
            /\ lastOp' = Response("updateLease", 500, "error_updating_rent", 0)
       ELSE /\ Commit(Transaction(DB, UpdateLeaseTx(DB, id, monthlyRent)))
            /\ lastOp' = Response("updateLease", 200, "ok", 0)

updateLease == \E id \in 1..MaxLeaseId, monthlyRent \in Rents \cup {-1} : updateLeaseReq(id, monthlyRent)

\* ---------------------------------------------------------------- updateInvoice
\* PUT /api/admin/invoices/:id with body { status: 'paid' }: a ledger row of
\* the invoice's amount (its balance left to the column), then the invoice is
\* paid with nothing due.
updateInvoiceReq(id) ==
    /\ Served
    /\ IF \A i \in invoice : i.id # id
       THEN /\ UNCHANGED tables
            /\ lastOp' = Response("updateInvoice", 404, "not_found", 0)
       ELSE LET existing == RowById(invoice, id)
            IN /\ txn' = Append(txn, [amount |-> existing.amount, balance |-> NULL])
               /\ invoice' = {IF i.id = id
                               THEN [i EXCEPT !.status = "paid", !.balanceDue = 0]
                               ELSE i : i \in invoice}
               /\ lastOp' = Response("updateInvoice", 200, "ok", 0)
               /\ UNCHANGED <<unit, bedroom, lease, user, nextLeaseId, nextInvoiceId>>

updateInvoice == \E id \in 1..MaxInvoiceId : Len(txn) < MaxTxns /\ updateInvoiceReq(id)

\* ---------------------------------------------------------------- requests served at once
\* A request in flight: what it was sent and the rows it has read.
InFlight(op, id, u, b, t, start, dep, pre) ==
    [op |-> op, id |-> id, u |-> u, b |-> b, t |-> t, start |-> start, dep |-> dep,
     pre |-> pre]

\* The body of createLease's transaction with the unit, its bedrooms and its
\* leases locked when read: validation sees the rows as they are at the writes.
CreateLeaseTxLocked(d, pre, u, b, t, start, end, dep, rent) ==
    CreateLeaseTx(d, u, b, t, start, end, dep, rent)

\* The body of createLease's transaction when another transaction commits
\* after its first read: validation is on the unit, bedrooms and leases read
\* then (pre), the statements after it run on the rows as committed (d).
CreateLeaseTxOn(d, pre, u, b, t, start, end, dep, rent) ==
    LET reason == CreateLeaseValidation(pre, u, b, t)
        occupied == {x \in BedroomsOf(u) : pre.bedroom[x] = "Occupied"}
    IN IF reason # "ok"
       THEN Throw(d, reason, IF reason = "bedrooms_occupied" THEN Cardinality(occupied) ELSE 0)
       ELSE Ok(CreateLeaseApply(d, u, b, t, start, end, dep, rent))

\* createLease up to tx.unit.findUnique with its bedrooms and leases.
beginCreateLease ==
    \E u \in Units, b \in Bedrooms \cup {NULL}, t \in DOMAIN user,
       start \in Months, dep \in Deposits :
        /\ Received
        /\ Cardinality(inflight) < MaxInFlight
        /\ \A r \in inflight : r.op = "createLease" /\ r.t # t
        /\ nextLeaseId + Cardinality(inflight) <= MaxLeaseId
        /\ nextInvoiceId + Cardinality(inflight) <= MaxInvoiceId
        /\ Len(txn) + dep + Cardinality({r \in inflight : r.dep > 0}) <= MaxTxns
        /\ inflight' = inflight \cup {InFlight("createLease", NULL, u, b, t, start, dep, DB)}
        /\ UNCHANGED <<tables, lastOp>>

\* createLease from its validation to the response.
finishCreateLeaseReq(req) ==
    /\ req.op = "createLease"
    /\ LET r == CreateLeaseTxOn(DB, req.pre, req.u, req.b, req.t, req.start, MaxMonth,
                                req.dep, 0)
       IN /\ Commit(Transaction(DB, r))
          /\ lastOp' = Response("createLease", IF r.threw THEN 400 ELSE 201, r.reason, r.k)
    /\ inflight' = inflight \ {req}
    /\ UNCHANGED ops

finishCreateLease == \E req \in inflight : finishCreateLeaseReq(req)

\* activateLease up to prisma.lease.findUnique with the unit, its bedrooms
\* and the tenant, before the transaction is opened.
beginActivateLease ==
    \E id \in 1..MaxLeaseId :
        /\ Received
        /\ Cardinality(inflight) < MaxInFlight
        /\ \A r \in inflight : r.op = "activateLease" /\ r.id # id
        /\ nextInvoiceId + Cardinality(inflight) <= MaxInvoiceId
        /\ IF \A l \in lease : l.id # id
           THEN /\ lastOp' = Response("activateLease", 404, "not_found", 0)
                /\ UNCHANGED inflight
           ELSE /\ inflight' = inflight \cup
                        {InFlight("activateLease", id, NULL, NULL, NULL, NULL, 0, DB)}
                /\ UNCHANGED lastOp
        /\ UNCHANGED tables

\* activateLease's transaction, run as one step in month now, and the response.
finishActivateLeaseReq(req, now) ==
    /\ req.op = "activateLease"
    /\ LET r == ActivateLeaseTx(DB, req.pre, req.id, now)
       IN /\ Commit(Transaction(DB, r))
          /\ lastOp' = IF r.threw
                       THEN Response("activateLease", 500, "error_activating_lease", 0)
                       ELSE Response("activateLease", 200, "ok", 0)
    /\ inflight' = inflight \ {req}
    /\ UNCHANGED ops

finishActivateLease == \E req \in inflight, now \in Months : finishActivateLeaseReq(req, now)

\* ---------------------------------------------------------------- reservation
\* A tenant without a lease is assigned a unit (and bedroom) ahead of the
\* lease dates: a DRAFT lease row and the tenant's cached assignment.
reserveDraft ==
    /\ Served
    /\ \E t \in DOMAIN user, u \in Units, b \in Bedrooms \cup {NULL} :
        /\ nextLeaseId <= MaxLeaseId
        /\ b # NULL => BedroomUnit[b] = u
        /\ \A l \in lease : l.tenantId # t
        /\ lease' = lease \cup {[id |-> nextLeaseId, unitId |-> u, bedroomId |-> b,
                                 tenantId |-> t, status |-> "DRAFT",
                                 startDate |-> NULL, endDate |-> NULL, monthlyRent |-> 0]}
        /\ nextLeaseId' = nextLeaseId + 1
        /\ user' = [user EXCEPT ![t] = [unitId |-> u, bedroomId |-> b, buildingId |-> 1]]
        /\ lastOp' = Response("reserveDraft", 201, "ok", 0)
        /\ UNCHANGED <<unit, bedroom, invoice, txn, nextInvoiceId>>

\* ---------------------------------------------------------------- specification
Init ==
    /\ unit = [u \in Units |-> [status |-> "Vacant", rentalMode |-> "FULL_UNIT"]]
    /\ bedroom = [b \in Bedrooms |-> "Vacant"]
    /\ lease = {}
    /\ user = [t \in Tenants |-> [unitId |-> NULL, bedroomId |-> NULL, buildingId |-> NULL]]
    /\ invoice = {}
    /\ txn = <<>>
    /\ nextLeaseId = 1
    /\ nextInvoiceId = 1
    /\ lastOp = Response("init", 200, "ok", 0)
    /\ ops = 0
    /\ inflight = {}

Next ==
    \/ createLease
    \/ activateLease
    \/ deleteLease
    \/ updateTenant
    \/ deleteTenant
    \/ deleteInvoice
    \/ reserveDraft

\* Every request that assigns, moves or removes an occupancy.
Spec == Init /\ [][Next]_vars

\* Sequences of createLease, activateLease and deleteLease on reserved or new leases.
NextLease ==
    \/ createLease
    \/ activateLease
    \/ deleteLease
    \/ reserveDraft

SpecLease == Init /\ [][NextLease]_vars

\* Sequences of createLease, activateLease, deleteLease and move.
NextMove ==
    \/ createLease
    \/ activateLease
    \/ deleteLease
    \/ updateTenant
    \/ reserveDraft

SpecMove == Init /\ [][NextMove]_vars

\* Leases created with and without a rent, rent updates and invoice payments.
NextRent ==
    \/ createLease
    \/ createLeaseRent
    \/ updateLease
    \/ updateInvoice

SpecRent == Init /\ [][NextRent]_vars

\* createLease requests served one at a time or two at once.
NextCreateRace ==
    \/ beginCreateLease
    \/ finishCreateLease

SpecCreateRace == Init /\ [][NextCreateRace]_vars

\* Reservations, then activateLease requests served one at a time or two at once.
NextActivateRace ==
    \/ reserveDraft
    \/ beginActivateLease
    \/ finishActivateLease

SpecActivateRace == Init /\ [][NextActivateRace]_vars

\* ---------------------------------------------------------------- properties
Completed(opNames) == lastOp.op \in opNames /\ lastOp.code \in {200, 201}

ActiveFullUnitLeases(u) ==
    {l \in lease : l.unitId = u /\ l.status = "Active" /\ l.bedroomId = NULL}

\* C1 Full-unit exclusivity: every unit has at most one lease row with status
\* Active and bedroomId = NULL, and while it has one, every createLease for the
\* whole unit is rejected with an occupancy-conflict error (400).
C1_FullUnitExclusivity ==
    \A u \in Units :
        /\ Cardinality(ActiveFullUnitLeases(u)) <= 1
        /\ ActiveFullUnitLeases(u) # {} =>
              \A t \in DOMAIN user :
                  CreateLeaseTx(DB, u, NULL, t, 1, 1, 0, 0).threw

\* The Active leases that reference bedroom b: through Lease.bedroomId or
\* through the leasing tenant's User.bedroomId.
ActiveLeasesOfBedroom(b) ==
    {l \in lease : l.status = "Active"
                   /\ (l.bedroomId = b \/ user[l.tenantId].bedroomId = b)}

\* C2 Bedroom exclusivity: every bedroom is referenced by at most one Active
\* lease, directly or through the tenant's assignment.
C2_BedroomExclusivity ==
    \A b \in Bedrooms : Cardinality(ActiveLeasesOfBedroom(b)) <= 1

\* The status a BEDROOM_WISE unit must show for the statuses of its bedrooms.
DerivedStatus(u) ==
    IF \A b \in BedroomsOf(u) : bedroom[b] = "Occupied" THEN "Fully Booked"
    ELSE IF \A b \in BedroomsOf(u) : bedroom[b] = "Vacant" THEN "Vacant"
    ELSE "Occupied"

\* C3 Status derivation: after every completed createLease, activateLease or
\* deleteLease, every BEDROOM_WISE unit is Fully Booked iff all its bedrooms
\* are Occupied, Vacant iff all are Vacant, and Occupied otherwise.
C3_StatusDerivation ==
    Completed({"createLease", "activateLease", "deleteLease"}) =>
        \A u \in Units :
            unit[u].rentalMode = "BEDROOM_WISE" => unit[u].status = DerivedStatus(u)

\* C4 Tenant cache consistency: after every completed createLease,
\* activateLease, deleteLease or move, a tenant's cached unitId and bedroomId
\* equal the unitId and bedroomId of each of their Active leases, and a tenant
\* with no Active or DRAFT lease has unitId, bedroomId and buildingId NULL.
C4_TenantCache ==
    Completed({"createLease", "activateLease", "deleteLease", "updateTenant"}) =>
        \A t \in DOMAIN user :
            /\ \A l \in lease :
                  l.tenantId = t /\ l.status = "Active" =>
                      user[t].unitId = l.unitId /\ user[t].bedroomId = l.bedroomId
            /\ (\A l \in lease : l.tenantId = t => l.status \notin {"Active", "DRAFT"}) =>
                  user[t] = [unitId |-> NULL, bedroomId |-> NULL, buildingId |-> NULL]

NoAssignment == [unitId |-> NULL, bedroomId |-> NULL, buildingId |-> NULL]

\* Tenant t holds exactly one lease, and it is an Active full-unit lease on
\* unit a: bedroomId NULL, the unit leased as a whole.
HoldsFullUnit(t, a) ==
    /\ t \in DOMAIN user
    /\ unit[a].rentalMode = "FULL_UNIT"
    /\ \E l \in lease :
          /\ l.tenantId = t /\ l.unitId = a /\ l.status = "Active" /\ l.bedroomId = NULL
          /\ \A x \in lease : x.tenantId = t => x = l

\* C5 Move scenario: when a tenant whose only lease is an Active full-unit
\* lease on unit a is moved to a unit b # a, then afterwards that lease is
\* MOVED with endDate set, unit a is Vacant, exactly one new lease with status
\* Active exists for the tenant on b, and the tenant's cached unitId is b.
C5_MoveScenario ==
    [][\A t \in Tenants, a \in Units, b \in Units, now \in Months :
          (a # b /\ HoldsFullUnit(t, a) /\ updateTenantReq(t, b, NULL, 1, now, "none"))
          => /\ \A l \in lease : l.tenantId = t =>
                   \E x \in lease' : x.id = l.id /\ x.status = "MOVED" /\ x.endDate # NULL
             /\ unit'[a].status = "Vacant"
             /\ Cardinality({x \in lease' : x.tenantId = t /\ x.unitId = b
                                            /\ x.status = "Active"
                                            /\ \A l \in lease : l.id # x.id}) = 1
             /\ user'[t].unitId = b]_vars

\* C6 Move atomicity: when a tenant holding an Active lease on one unit is
\* moved to another unit and a statement of the move fails, every row is as it
\* was before the call (the old lease still Active, the tenant's cached
\* assignment unchanged).
C6_MoveAtomicity ==
    [][\A t \in Tenants, b \in Units, now \in Months :
          \A bId \in BedroomsOf(b) \cup {NULL} :
             ((\E l \in lease : l.tenantId = t /\ l.status = "Active" /\ l.unitId # b)
              /\ updateTenantReq(t, b, bId, 1, now, "create")
              /\ lastOp'.code = 500)
             => UNCHANGED tables]_vars

\* C7 No partial mutation on rejection: a createLease or activateLease that
\* occupancy validation rejects leaves every Unit, Bedroom, Lease, User,
\* Invoice and Transaction row as it was (a rejected activateLease leaves the
\* lease DRAFT with its old startDate).
C7_NoPartialMutation ==
    [][(lastOp'.op \in {"createLease", "activateLease"} /\ lastOp'.code \in {400, 500})
          => UNCHANGED tables]_vars

\* An activateLease was just rejected, and every lease whose activation the
\* validation rejects is still DRAFT without a startDate.
C7_Witness ==
    /\ lastOp.op = "activateLease" /\ lastOp.code = 500
    /\ \E l \in lease : ActivateLeaseValidation(DB, l) # "ok"
    /\ \A l \in lease : ActivateLeaseValidation(DB, l) # "ok" =>
          l.status = "DRAFT" /\ l.startDate = NULL

\* C8 Unwind restores vacancy: deleteLease on an Active full-unit lease
\* (bedroomId NULL, the unit leased as a whole) sets the unit and every
\* bedroom of it to Vacant, clears the tenant's unitId, bedroomId and
\* buildingId, and removes the lease row.
C8_UnwindRestoresVacancy ==
    [][\A id \in 1..MaxLeaseId :
          ((\E l \in lease : l.id = id /\ l.status = "Active" /\ l.bedroomId = NULL
                             /\ unit[l.unitId].rentalMode = "FULL_UNIT")
           /\ deleteLeaseReq(id))
          => LET l == RowById(lease, id)
             IN /\ unit'[l.unitId].status = "Vacant"
                /\ \A b \in BedroomsOf(l.unitId) : bedroom'[b] = "Vacant"
                /\ user'[l.tenantId] = NoAssignment
                /\ \A x \in lease' : x.id # id]_vars

\* C9 Invoice idempotence: there is at most one invoice for each
\* (tenantId, unitId, month), and running the ensure-invoice step a second
\* time for the same triple adds no row.
C9_InvoiceIdempotence ==
    /\ \A i, j \in invoice :
          (i.tenantId = j.tenantId /\ i.unitId = j.unitId /\ i.month = j.month) => i = j
    /\ \A t \in DOMAIN user, u \in Units, m \in Months, id \in 1..MaxLeaseId, r \in Rents :
          LET once == EnsureInvoice(DB, t, u, m, id, r)
          IN EnsureInvoice(once, t, u, m, id, r) = once

\* Two Active leases of one tenant on one unit with the same start month
\* share a single invoice.
C9_Witness ==
    \E l1, l2 \in lease :
        /\ l1.id # l2.id
        /\ l1.status = "Active" /\ l2.status = "Active"
        /\ l1.tenantId = l2.tenantId /\ l1.unitId = l2.unitId
        /\ l1.startDate = l2.startDate /\ l1.startDate # NULL
        /\ Cardinality({i \in invoice : i.tenantId = l1.tenantId /\ i.unitId = l1.unitId
                                        /\ i.month = l1.startDate}) = 1

\* C10 Invoice number uniqueness: no two stored invoices have the same
\* invoiceNo.
C10_InvoiceNoUnique ==
    \A i, j \in invoice : i.invoiceNo = j.invoiceNo => i = j

OccupiedBedrooms(u) == {b \in BedroomsOf(u) : bedroom[b] = "Occupied"}

\* The request just served was refused: an error status and no row changed.
Rejected == lastOp'.code >= 400 /\ UNCHANGED tables

\* Lease id is DRAFT with the scope the lease row and the tenant's cached
\* assignment agree on: bedroom b, or the whole unit when b is NULL.
DraftWithScope(id, b) ==
    \E l \in lease : /\ l.id = id /\ l.status = "DRAFT" /\ l.bedroomId = b
                     /\ user[l.tenantId].bedroomId = b

\* C11 Full-unit conflict: createLease and activateLease for a full-unit lease
\* on a unit with k >= 1 Occupied bedrooms are rejected, and the error sent to
\* the caller names the count k.
C11_FullUnitConflict ==
    [][/\ \A u \in Units, t \in DOMAIN user, start \in Months, dep \in Deposits :
            (OccupiedBedrooms(u) # {} /\ createLeaseReq(u, NULL, t, start, MaxMonth, dep))
            => Rejected /\ lastOp'.k = Cardinality(OccupiedBedrooms(u))
       /\ \A id \in 1..MaxLeaseId, now \in Months :
            (/\ DraftWithScope(id, NULL)
             /\ OccupiedBedrooms(RowById(lease, id).unitId) # {}
             /\ activateLeaseReq(id, now))
            => Rejected /\ lastOp'.k = Cardinality(OccupiedBedrooms(RowById(lease, id).unitId))
      ]_vars

\* The occupancy validation the specification states for a lease of tenant t
\* on unit u with scope b (NULL: the whole unit) finds a conflict. x ranges
\* over the other leases of the unit; a full-unit lease is one without a
\* bedroom on a unit leased as a whole.
ValidationConflict(self, u, b, t) ==
    LET others == {x \in lease : x.unitId = u /\ x.id # self}
        fullUnit(x) == x.bedroomId = NULL /\ unit[u].rentalMode = "FULL_UNIT"
    IN IF b = NULL
       THEN \/ \E x \in others : x.status = "Active"
            \/ \E x \in others : x.status = "DRAFT" /\ x.tenantId # t
       ELSE \/ \E x \in others : x.status = "Active" /\ fullUnit(x)
            \/ \E x \in others : x.status = "DRAFT" /\ fullUnit(x) /\ x.tenantId # t
            \/ b \notin BedroomsOf(u)
            \/ bedroom[b] # "Vacant"

\* C12 Activation is validated like creation: activateLease on a DRAFT lease
\* is rejected whenever the validation of creation finds a conflict for the
\* lease's unit, scope and tenant; the lease stays DRAFT.
C12_ActivationValidated ==
    [][\A id \in 1..MaxLeaseId, now \in Months, b \in Bedrooms \cup {NULL} :
          (/\ DraftWithScope(id, b)
           /\ LET l == RowById(lease, id)
              IN ValidationConflict(id, l.unitId, b, l.tenantId)
           /\ activateLeaseReq(id, now))
          => Rejected]_vars

\* A DRAFT lease x reserves what a request for scope b (NULL: the whole unit)
\* on x's unit asks for: x reserves the whole unit.
ReservesScope(x, b) == x.status = "DRAFT" /\ x.bedroomId = NULL

\* C13 DRAFT reservation blocks other tenants: while a DRAFT full-unit lease
\* of tenant X exists for a unit, createLease by any other tenant for the whole
\* unit or for a bedroom of it is rejected, whatever the unit's rentalMode.
C13_DraftBlocksOthers ==
    [][\A u \in Units, b \in Bedrooms \cup {NULL}, y \in DOMAIN user,
          start \in Months, dep \in Deposits :
          (/\ b # NULL => b \in BedroomsOf(u)
           /\ \E x \in lease : x.unitId = u /\ x.tenantId # y /\ ReservesScope(x, b)
           /\ createLeaseReq(u, b, y, start, MaxMonth, dep))
          => Rejected]_vars

LeaseIds(rows) == {l.id : l \in rows}

\* C14 DRAFT reuse: when createLease(u, t) succeeds and a DRAFT lease for
\* (u, t) exists, that row becomes Active under its id and no lease row is
\* added; when none exists exactly one new row is added.
C14_DraftReuse ==
    [][\A u \in Units, b \in Bedrooms \cup {NULL}, t \in DOMAIN user,
          start \in Months, dep \in Deposits :
          (createLeaseReq(u, b, t, start, MaxMonth, dep) /\ lastOp'.code = 201)
          => LET drafts == {l \in lease : l.unitId = u /\ l.tenantId = t /\ l.status = "DRAFT"}
             IN IF drafts # {}
                THEN /\ LeaseIds(lease') = LeaseIds(lease)
                     /\ Cardinality(lease') = Cardinality(lease)
                     /\ \E l \in drafts : \E x \in lease' : x.id = l.id /\ x.status = "Active"
                     /\ \A l \in lease \ drafts : l \in lease'
                ELSE \E x \in lease' : /\ x.id \notin LeaseIds(lease)
                                       /\ x.status = "Active"
                                       /\ lease' = lease \cup {x}]_vars

\* The only lease ever stored was reserved as a DRAFT for a bedroom and is now
\* Active with the dates of the createLease that just succeeded.
C14_Witness ==
    /\ lastOp.op = "createLease" /\ lastOp.code = 201
    /\ nextLeaseId = 2
    /\ \E l \in lease : /\ l.id = 1 /\ l.status = "Active"
                        /\ l.bedroomId # NULL /\ l.endDate # NULL

\* C15 Legal transitions only: activateLease turns a lease Active only when it
\* is DRAFT (a lease already active, stored as Active or ACTIVE, aside), and a
\* MOVED lease keeps status MOVED through every activateLease, createLease and
\* move.
C15_LegalTransitions ==
    [][lastOp'.op \in {"activateLease", "createLease", "updateTenant"}
          => \A l \in lease : \A x \in lease' :
                x.id = l.id =>
                   /\ l.status = "MOVED" => x.status = "MOVED"
                   /\ (lastOp'.op = "activateLease" /\ x.status = "Active"
                       /\ l.status \notin {"Active", "ACTIVE"}) => l.status = "DRAFT"]_vars

\* C16 Single writer: an operation that is not a lease operation (here
\* deleteTenant and the invoice operations) leaves the status and rentalMode
\* of every unit and the status of every bedroom unchanged.
C16_SingleWriter ==
    [][lastOp'.op \in {"deleteTenant", "deleteInvoice"} => UNCHANGED <<unit, bedroom>>]_vars

\* The caller was sent a 400-class rejection carrying the given reason.
RejectedWith(reason) == lastOp'.code \in 400..499 /\ lastOp'.reason = reason

\* C17 Error propagation: every occupancy-validation failure of createLease
\* or activateLease reaches the caller as a 400-class rejection carrying the
\* reason of the failure.
C17_ErrorPropagation ==
    [][/\ \A u \in Units, b \in Bedrooms \cup {NULL}, t \in DOMAIN user,
             start \in Months, dep \in Deposits :
            (CreateLeaseValidation(DB, u, b, t) # "ok"
             /\ createLeaseReq(u, b, t, start, MaxMonth, dep))
            => RejectedWith(CreateLeaseValidation(DB, u, b, t))
       /\ \A id \in 1..MaxLeaseId, now \in Months :
            ((\E l \in lease : l.id = id /\ ActivateLeaseValidation(DB, l) # "ok")
             /\ activateLeaseReq(id, now))
            => RejectedWith(ActivateLeaseValidation(DB, RowById(lease, id)))]_vars

\* What the specification requires right after a bedroom lease for bedroom b
\* of unit u by tenant t was applied.
BedroomApplied(u, b, t) ==
    /\ bedroom'[b] = "Occupied"
    /\ unit'[u].rentalMode = "BEDROOM_WISE"
    /\ unit'[u].status = IF \A x \in BedroomsOf(u) : bedroom'[x] = "Occupied"
                         THEN "Fully Booked" ELSE "Occupied"
    /\ \A x \in BedroomsOf(u) \ {b} : bedroom'[x] = bedroom[x]
    /\ user'[t].bedroomId = b

\* C18 Bedroom apply: right after a successful createLease or activateLease
\* for bedroom b of unit u by tenant t, b is Occupied, u is BEDROOM_WISE with
\* status Fully Booked when all its bedrooms are Occupied and Occupied
\* otherwise, the other bedrooms of u are unchanged and t's cached bedroomId
\* is b.
C18_BedroomApply ==
    [][/\ \A u \in Units, b \in Bedrooms, t \in DOMAIN user,
             start \in Months, dep \in Deposits :
            (createLeaseReq(u, b, t, start, MaxMonth, dep) /\ lastOp'.code = 201)
            => BedroomApplied(u, b, t)
       /\ \A id \in 1..MaxLeaseId, now \in Months :
            ((\E l \in lease : l.id = id /\ l.status = "DRAFT" /\ l.bedroomId # NULL)
             /\ activateLeaseReq(id, now) /\ lastOp'.code = 200)
            => LET l == RowById(lease, id)
               IN BedroomApplied(l.unitId, l.bedroomId, l.tenantId)]_vars

\* The same with the lease's bedroom also being the tenant's cached bedroom
\* when activateLease is called.
C18_BedroomApplyCached ==
    [][/\ \A u \in Units, b \in Bedrooms, t \in DOMAIN user,
             start \in Months, dep \in Deposits :
            (createLeaseReq(u, b, t, start, MaxMonth, dep) /\ lastOp'.code = 201)
            => BedroomApplied(u, b, t)
       /\ \A id \in 1..MaxLeaseId, now \in Months, b \in Bedrooms :
            (DraftWithScope(id, b) /\ activateLeaseReq(id, now) /\ lastOp'.code = 200)
            => LET l == RowById(lease, id)
               IN BedroomApplied(l.unitId, b, l.tenantId)]_vars

\* What the specification requires right after a full-unit lease on unit u by
\* tenant t was applied.
FullUnitApplied(u, t) ==
    /\ unit'[u] = [status |-> "Fully Booked", rentalMode |-> "FULL_UNIT"]
    /\ \A x \in BedroomsOf(u) : bedroom'[x] = "Occupied"
    /\ user'[t].bedroomId = NULL

\* C19 Full-unit apply: right after a successful createLease or activateLease
\* for a full-unit lease on unit u by tenant t, u is Fully Booked in
\* rentalMode FULL_UNIT, every bedroom of u is Occupied and t's cached
\* bedroomId is null.
C19_FullUnitApply ==
    [][/\ \A u \in Units, t \in DOMAIN user, start \in Months, dep \in Deposits :
            (createLeaseReq(u, NULL, t, start, MaxMonth, dep) /\ lastOp'.code = 201)
            => FullUnitApplied(u, t)
       /\ \A id \in 1..MaxLeaseId, now \in Months :
            ((\E l \in lease : l.id = id /\ l.status = "DRAFT" /\ l.bedroomId = NULL)
             /\ activateLeaseReq(id, now) /\ lastOp'.code = 200)
            => LET l == RowById(lease, id)
               IN FullUnitApplied(l.unitId, l.tenantId)]_vars

\* The same with the tenant's cached bedroomId being null when activateLease
\* is called.
C19_FullUnitApplyCached ==
    [][/\ \A u \in Units, t \in DOMAIN user, start \in Months, dep \in Deposits :
            (createLeaseReq(u, NULL, t, start, MaxMonth, dep) /\ lastOp'.code = 201)
            => FullUnitApplied(u, t)
       /\ \A id \in 1..MaxLeaseId, now \in Months :
            (DraftWithScope(id, NULL) /\ activateLeaseReq(id, now) /\ lastOp'.code = 200)
            => LET l == RowById(lease, id)
               IN FullUnitApplied(l.unitId, l.tenantId)]_vars

\* What the specification requires right after the unwind of a bedroom lease
\* for bedroom b of unit u.
BedroomUnwound(u, b) ==
    /\ bedroom'[b] = "Vacant"
    /\ \A x \in Bedrooms \ {b} : bedroom'[x] = bedroom[x]
    /\ unit'[u].status =
          IF \A x \in BedroomsOf(u) : bedroom'[x] = "Vacant" THEN "Vacant"
          ELSE IF \E x \in BedroomsOf(u) : bedroom'[x] = "Occupied" THEN "Occupied"
          ELSE unit[u].status

\* C20 Bedroom unwind: deleteLease on an Active bedroom lease sets only that
\* lease's bedroom to Vacant, leaves every other bedroom unchanged, and leaves
\* the unit Vacant when all its bedrooms are Vacant, Occupied when one is
\* still Occupied, and as it was otherwise.
C20_BedroomUnwind ==
    [][\A id \in 1..MaxLeaseId :
          ((\E l \in lease : l.id = id /\ l.status = "Active" /\ l.bedroomId # NULL)
           /\ deleteLeaseReq(id))
          => LET l == RowById(lease, id)
             IN BedroomUnwound(l.unitId, l.bedroomId)]_vars

\* The same with the lease's bedroom also being the tenant's cached bedroom
\* when deleteLease is called.
C20_BedroomUnwindCached ==
    [][\A id \in 1..MaxLeaseId :
          ((\E l \in lease : /\ l.id = id /\ l.status = "Active" /\ l.bedroomId # NULL
                             /\ user[l.tenantId].bedroomId = l.bedroomId)
           /\ deleteLeaseReq(id))
          => LET l == RowById(lease, id)
             IN BedroomUnwound(l.unitId, l.bedroomId)]_vars

\* C21 Deleting a non-Active lease: deleteLease on a lease whose status is not
\* Active removes that lease row and no other, sets the tenant's unitId,
\* bedroomId and buildingId to null, and changes no unit status, rentalMode or
\* bedroom status.
C21_DeleteNonActive ==
    [][\A id \in 1..MaxLeaseId :
          (/\ lastOp'.op = "deleteLease"
           /\ \E l \in lease : l.id = id /\ l.status # "Active"
           /\ deleteLeaseReq(id))
          => LET l == RowById(lease, id)
             IN /\ lease' = lease \ {l}
                /\ user'[l.tenantId] = NoAssignment
                /\ UNCHANGED <<unit, bedroom>>]_vars

\* A lease that was not Active has just been deleted while a unit is still
\* occupied, and the tenants left without a lease have no assignment.
C21_Witness ==
    /\ lastOp.op = "deleteLease" /\ lastOp.reason = "deleted_permanently"
    /\ \E u \in Units : unit[u].status # "Vacant"
    /\ \E t \in DOMAIN user : (\A l \in lease : l.tenantId # t) /\ user[t] = NoAssignment

\* The leases a step has made Active: Active afterwards, and new or not
\* Active before.
MadeActive ==
    {x \in lease' : x.status = "Active"
                    /\ \A l \in lease : l.id = x.id => l.status # "Active"}

\* C22 Lease scope is recorded on the lease: the lease a successful
\* createLease makes Active has bedroomId b when the request names bedroom b
\* and bedroomId null when it names none.
C22_ScopeOnLease ==
    [][\A u \in Units, b \in Bedrooms \cup {NULL}, t \in DOMAIN user,
          start \in Months, dep \in Deposits :
          (/\ lastOp'.op = "createLease" /\ lastOp'.code = 201
           /\ createLeaseReq(u, b, t, start, MaxMonth, dep))
          => \A x \in MadeActive : x.bedroomId = b]_vars

\* Invoice i is one updateLease(id) back-fills: of that lease, not paid, amount 0.
BackFilled(i, id) == i.leaseId = id /\ i.status # "paid" /\ i.amount = 0

\* C23 Rent update: updateLease(l, r) changes no lease status and no unit or
\* bedroom; it sets l's monthlyRent to r and sets rent, amount and balanceDue
\* to r on exactly the invoices of l that are not paid and have amount 0; every
\* other invoice and every other lease row is unchanged.
C23_RentUpdate ==
    [][\A id \in 1..MaxLeaseId, r \in Rents :
          (/\ lastOp'.op = "updateLease"
           /\ \E l \in lease : l.id = id
           /\ updateLeaseReq(id, r))
          => /\ UNCHANGED <<unit, bedroom, user>>
             /\ lease' = {IF l.id = id THEN [l EXCEPT !.monthlyRent = r] ELSE l : l \in lease}
             /\ LeaseIds(invoice') = LeaseIds(invoice)
             /\ \A i \in invoice : \A x \in invoice' :
                   x.id = i.id =>
                      IF BackFilled(i, id)
                      THEN x = [i EXCEPT !.rent = r, !.amount = r, !.balanceDue = r]
                      ELSE x = i]_vars

\* A rent update has just been served, and a paid invoice of amount 0 belongs
\* to a lease whose rent is now above 0.
C23_Witness ==
    /\ lastOp.op = "updateLease" /\ lastOp.code = 200
    /\ \E i \in invoice : /\ i.status = "paid" /\ i.amount = 0
                          /\ \E l \in lease : l.id = i.leaseId /\ l.monthlyRent > 0

\* The leases of tenant t that are not MOVED.
CurrentLeases(t) == {l \in lease : l.tenantId = t /\ l.status # "MOVED"}

\* C24 DRAFT move in place: when a tenant whose current lease is DRAFT is moved
\* to a different unit, that same lease row is updated to the new unitId and
\* bedroomId, its status stays DRAFT, no other lease row changes and the number
\* of lease rows is unchanged.
C24_DraftMoveInPlace ==
    [][\A t \in DOMAIN user, unitId \in Units \cup {NULL}, bedroomId \in Bedrooms \cup {NULL},
          propertyId \in Properties \cup {NULL}, now \in Months :
          LET newUnitId == IF bedroomId # NULL THEN BedroomUnit[bedroomId] ELSE unitId
          IN (/\ lastOp'.op = "updateTenant" /\ lastOp'.code = 200
              /\ CurrentLeases(t) # {}
              /\ \A l \in CurrentLeases(t) : l.status = "DRAFT" /\ l.unitId # newUnitId
              /\ newUnitId # NULL
              /\ updateTenantReq(t, unitId, bedroomId, propertyId, now, "none"))
             => /\ Cardinality(lease') = Cardinality(lease)
                /\ \E l \in CurrentLeases(t) :
                      lease' = (lease \ {l}) \cup
                               {[l EXCEPT !.unitId = newUnitId, !.bedroomId = bedroomId]}]_vars

\* A move has just been served and the tenant's only lease row is still the
\* first one, a DRAFT on the unit and bedroom the tenant was moved to.
C24_Witness ==
    /\ lastOp.op = "updateTenant" /\ lastOp.code = 200
    /\ nextLeaseId = 2 /\ ops = 2
    /\ \E l \in lease : /\ l.id = 1 /\ l.status = "DRAFT" /\ l.unitId = 2
                        /\ user[l.tenantId].unitId = 2
                        /\ user[l.tenantId].bedroomId = l.bedroomId

\* C25 Double-booking race: a createLease for bedroom b that read the bedroom
\* Vacant, and whose remaining statements run after another tenant's lease for
\* b was committed, passes validation and commits too, which leaves two Active
\* leases for the one bedroom.
C25_DoubleBookingRace ==
    [][\A req \in inflight :
          (/\ req.op = "createLease" /\ req.b # NULL
           /\ CreateLeaseValidation(req.pre, req.u, req.b, req.t) = "ok"
           /\ bedroom[req.b] = "Occupied"
           /\ \E l \in ActiveLeasesOfBedroom(req.b) : l.tenantId # req.t
           /\ finishCreateLeaseReq(req))
          => /\ lastOp' = Response("createLease", 201, "ok", 0)
             /\ \E x, y \in lease' :
                   /\ x.status = "Active" /\ y.status = "Active"
                   /\ x.tenantId # y.tenantId
                   /\ user'[x.tenantId].bedroomId = req.b
                   /\ user'[y.tenantId].bedroomId = req.b]_vars

\* Two createLease requests were received, both are answered, the last with
\* 201, and two tenants hold an Active lease for the same bedroom.
C25_Witness ==
    /\ ops = 2 /\ inflight = {}
    /\ lastOp = Response("createLease", 201, "ok", 0)
    /\ \E b \in Bedrooms : \E x, y \in ActiveLeasesOfBedroom(b) : x.tenantId # y.tenantId

\* C26 activateLease validates against current state: of two DRAFT leases of
\* one unit, one for the full unit and one for a bedroom, never both are
\* Active, whatever the order of the two activations' steps.
C26_ActivationCurrentState ==
    \A x, y \in lease :
        (x.unitId = y.unitId /\ x.bedroomId = NULL /\ y.bedroomId # NULL)
        => ~(x.status = "Active" /\ y.status = "Active")

\* C27 Status vocabulary: in every state reachable by createLease,
\* activateLease, deleteLease and move, every lease row's status is DRAFT,
\* Active or MOVED.
C27_StatusVocabulary ==
    \A l \in lease : l.status \in {"DRAFT", "Active", "MOVED"}

\* C28 One Active lease per tenant: in every state reachable by createLease,
\* activateLease, deleteLease and move, each tenant has at most one lease with
\* status Active.
C28_OneActiveLeasePerTenant ==
    \A t \in DOMAIN user :
        Cardinality({l \in lease : l.tenantId = t /\ l.status = "Active"}) <= 1

\* The tenants other than t that hold bedroom b by an Active bedroom lease: the
\* lease is on b's unit and names b, on the row or through the tenant's
\* assignment.
OtherHolders(b, t) ==
    {l.tenantId : l \in {x \in lease :
        /\ x.status = "Active" /\ x.tenantId # t
        /\ x.unitId = BedroomUnit[b]
        /\ x.bedroomId \in {NULL, b}
        /\ user[x.tenantId].bedroomId = b}}

\* C29 deleteTenant preserves other tenants' occupancy: after deleteTenant(t),
\* every Occupied bedroom held by another tenant's Active bedroom lease is
\* still Occupied, and a unit where another tenant holds an Active lease and
\* that was not Vacant is not Vacant.
C29_DeleteTenantPreservesOthers ==
    [][\A t \in DOMAIN user :
          (lastOp'.op = "deleteTenant" /\ t \notin DOMAIN user')
          => /\ \A b \in Bedrooms :
                   (bedroom[b] = "Occupied" /\ OtherHolders(b, t) # {})
                   => bedroom'[b] = "Occupied"
             /\ \A u \in Units :
                   (/\ unit[u].status # "Vacant"
                    /\ \E l \in lease : l.status = "Active" /\ l.tenantId # t /\ l.unitId = u)
                   => unit'[u].status # "Vacant"]_vars

\* C30 deleteLease unwinds only its own scope: deleteLease on an Active lease
\* never sets to Vacant an Occupied bedroom held by a different tenant's Active
\* bedroom lease, also after updateTenant has changed the deleting lease's
\* tenant's cached bedroomId.
C30_UnwindOwnScope ==
    [][\A id \in 1..MaxLeaseId :
          (/\ lastOp'.op = "deleteLease"
           /\ \E l \in lease : l.id = id /\ l.status = "Active"
           /\ deleteLeaseReq(id))
          => \A b \in Bedrooms :
                (bedroom[b] = "Occupied"
                 /\ OtherHolders(b, RowById(lease, id).tenantId) # {})
                => bedroom'[b] # "Vacant"]_vars
====
